---------------------------- MODULE Spec2Model ----------------------------
(***************************************************************************)
(* Clause highlighting in the PDF viewer of Loan-Lens                      *)
(* (frontend/src/components/PdfViewer.tsx, react-pdf version, and          *)
(* frontend/src/context/DocumentContext.tsx).                              *)
(*                                                                         *)
(* A string is a sequence of characters; a character is a one-character    *)
(* TLA+ string ("a", " ", "."), or a named atom for a character outside    *)
(* ASCII ("RUPEE", "EURO", "POUND", "YEN").  Offsets into strings are      *)
(* 0-based as in JavaScript; span (leaf) indexes are 1-based positions in  *)
(* the span array.                                                         *)
(***************************************************************************)
EXTENDS Integers, Sequences, FiniteSets, TLC

(***************************************************************************)
(* Characters                                                              *)
(***************************************************************************)
UpperCase ==
  <<"A","B","C","D","E","F","G","H","I","J","K","L","M",
    "N","O","P","Q","R","S","T","U","V","W","X","Y","Z">>

LowerCase ==
  <<"a","b","c","d","e","f","g","h","i","j","k","l","m",
    "n","o","p","q","r","s","t","u","v","w","x","y","z">>

Digits == {"0","1","2","3","4","5","6","7","8","9"}

Range(f) == { f[i] : i \in DOMAIN f }

\* \w of a JavaScript regular expression without the u flag: [A-Za-z0-9_]
WordChars == Range(UpperCase) \cup Range(LowerCase) \cup Digits \cup {"_"}

\* \s of a JavaScript regular expression (the members that the inputs use)
WhiteSpace == {" ", "\t", "\n"}

\* the currency class of normalize: rupee, dollar, euro, pound, yen
CurrencySymbols == {"RUPEE", "$", "EURO", "POUND", "YEN"}

\* the class [\w\s.%()-] whose complement is stripped
KeptChars == WordChars \cup WhiteSpace \cup {".", "%", "(", ")", "-"}

\* String.prototype.toLowerCase on one character
LowerChar(c) ==
  IF c \in Range(UpperCase)
    THEN LowerCase[CHOOSE i \in DOMAIN UpperCase : UpperCase[i] = c]
    ELSE c

(***************************************************************************)
(* String primitives                                                       *)
(***************************************************************************)
toLowerCase(s) == [i \in DOMAIN s |-> LowerChar(s[i])]

\* s.replace(/[class]/g, "") for a character class given by the kept set
RECURSIVE KeepOnly(_, _)
KeepOnly(s, keep) ==
  IF s = <<>> THEN <<>>
  ELSE IF Head(s) \in keep THEN <<Head(s)>> \o KeepOnly(Tail(s), keep)
  ELSE KeepOnly(Tail(s), keep)

\* normalize without the step that removes the ellipsis
RemoveEllipsisNot(s) == s

\* s.replace(/\.\.\./g, ""): leftmost, non-overlapping occurrences
RECURSIVE RemoveEllipsis(_)
RemoveEllipsis(s) ==
  IF s = <<>> THEN <<>>
  ELSE IF Len(s) >= 3 /\ s[1] = "." /\ s[2] = "." /\ s[3] = "."
    THEN RemoveEllipsis(SubSeq(s, 4, Len(s)))
    ELSE <<Head(s)>> \o RemoveEllipsis(Tail(s))

AllChars(s) == Range(s)

\* s.replace(/[currency class]/g, "")
RemoveCurrency(s) == KeepOnly(s, AllChars(s) \ CurrencySymbols)

\* s.replace(/[^\w\s.%()-]/g, "")
StripExotic(s) == KeepOnly(s, KeptChars)

\* s.replace(/\s+/g, " ")
RECURSIVE CollapseWhitespace(_)
CollapseWhitespace(s) ==
  IF s = <<>> THEN <<>>
  ELSE IF Head(s) \in WhiteSpace
    THEN IF Len(s) >= 2 /\ s[2] \in WhiteSpace
           THEN CollapseWhitespace(Tail(s))
           ELSE <<" ">> \o CollapseWhitespace(Tail(s))
    ELSE <<Head(s)>> \o CollapseWhitespace(Tail(s))

RECURSIVE TrimStart(_)
TrimStart(s) ==
  IF s # <<>> /\ Head(s) \in WhiteSpace THEN TrimStart(Tail(s)) ELSE s

RECURSIVE TrimEnd(_)
TrimEnd(s) ==
  IF s # <<>> /\ s[Len(s)] \in WhiteSpace
    THEN TrimEnd(SubSeq(s, 1, Len(s) - 1))
    ELSE s

\* whitespace removed at the start only
trimLeft(s) == TrimStart(s)

\* String.prototype.trim
trim(s) == TrimEnd(TrimStart(s))

\* normalize(text), PdfViewer.tsx
normalize(text) ==
  trim(CollapseWhitespace(StripExotic(RemoveCurrency(RemoveEllipsis(toLowerCase(text))))))

\* hay.slice(from, from + Len(needle)) = needle, from 0-based
OccursAt(hay, needle, from) ==
  /\ from + Len(needle) <= Len(hay)
  /\ \A k \in 1..Len(needle) : hay[from + k] = needle[k]

\* String.prototype.lastIndexOf in place of indexOf: the rightmost occurrence
lastIndexOf(hay, needle) ==
  LET hits == { i \in 0..Len(hay) : OccursAt(hay, needle, i) }
  IN IF hits = {} THEN -1
     ELSE CHOOSE i \in hits : \A j \in hits : i >= j

\* String.prototype.indexOf: 0-based offset of the leftmost occurrence, or -1
indexOf(hay, needle) ==
  LET hits == { i \in 0..Len(hay) : OccursAt(hay, needle, i) }
  IN IF hits = {} THEN -1
     ELSE CHOOSE i \in hits : \A j \in hits : i <= j

\* a test for equality in place of String.prototype.includes
includesWhole(hay, needle) == hay = needle

\* String.prototype.includes
includes(hay, needle) == indexOf(hay, needle) # -1

\* s.split(" ").filter(Boolean): the maximal runs of characters other than " "
RECURSIVE SplitWords(_, _)
SplitWords(s, cur) ==
  IF s = <<>> THEN (IF cur = <<>> THEN <<>> ELSE <<cur>>)
  ELSE IF Head(s) = " "
    THEN (IF cur = <<>> THEN <<>> ELSE <<cur>>) \o SplitWords(Tail(s), <<>>)
    ELSE SplitWords(Tail(s), cur \o <<Head(s)>>)

splitWords(s) == SplitWords(s, <<>>)

\* Array.prototype.join(" ")
RECURSIVE join(_)
join(parts) ==
  IF parts = <<>> THEN <<>>
  ELSE IF Len(parts) = 1 THEN parts[1]
  ELSE parts[1] \o <<" ">> \o join(Tail(parts))

\* Array.prototype.slice(0, n)
slice0(arr, n) == SubSeq(arr, 1, IF Len(arr) < n THEN Len(arr) ELSE n)

(***************************************************************************)
(* Program constants of the 3-layer matcher                                *)
(***************************************************************************)
PartialMinWords == 5

PartialWords == 15

TokenMinLen == 4

MaxKeyTokens == 5

\* the refetch interval of the analysis tabs, in milliseconds
RefetchMs == 3000

\* null of a span reference or of a page number
Null == 0

(***************************************************************************)
(* Match engine                                                            *)
(***************************************************************************)
\* the cursor of applyHighlightToRange advanced without the join space
RECURSIVE SpanStartNoJoin(_, _)
SpanStartNoJoin(normalizedSpanTexts, i) ==
  IF i = 1 THEN 0
  ELSE SpanStartNoJoin(normalizedSpanTexts, i - 1)
         + Len(normalizedSpanTexts[i - 1])

\* spanStart / spanEnd of span i in applyHighlightToRange: the cursor starts
\* at 0 and advances by the span's normalized length plus 1 for the join space
RECURSIVE SpanStart(_, _)
SpanStart(normalizedSpanTexts, i) ==
  IF i = 1 THEN 0
  ELSE SpanStart(normalizedSpanTexts, i - 1)
         + Len(normalizedSpanTexts[i - 1]) + 1

SpanEnd(normalizedSpanTexts, i) ==
  SpanStart(normalizedSpanTexts, i) + Len(normalizedSpanTexts[i])

\* the greatest element in place of the least
LastOf(S) == IF S = {} THEN Null ELSE CHOOSE i \in S : \A j \in S : i >= j

\* firstMatch never assigned
FirstOfUnset(S) == Null

\* the least element of a non-empty set of span indexes, Null for the empty set
FirstOf(S) == IF S = {} THEN Null ELSE CHOOSE i \in S : \A j \in S : i <= j

\* applyHighlightToRange marking only the spans that lie inside the match
applyHighlightToRangeInside(normalizedSpanTexts, matchIndex, matchEnd) ==
  LET hit == { i \in DOMAIN normalizedSpanTexts :
                 /\ SpanStart(normalizedSpanTexts, i) >= matchIndex
                 /\ SpanEnd(normalizedSpanTexts, i) <= matchEnd }
  IN [marks |-> hit, first |-> FirstOf(hit)]

\* applyHighlightToRange: the spans given the class, and the first of them
applyHighlightToRange(normalizedSpanTexts, matchIndex, matchEnd) ==
  LET hit == { i \in DOMAIN normalizedSpanTexts :
                 /\ SpanEnd(normalizedSpanTexts, i) > matchIndex
                 /\ SpanStart(normalizedSpanTexts, i) < matchEnd }
  IN [marks |-> hit, first |-> FirstOf(hit)]

\* a page container: whether it has a .react-pdf__Page__textContent child, and
\* the raw textContent of that child's spans in document order
PageContainer(hasLayer, spanTexts) ==
  [textLayer |-> hasLayer, spans |-> IF hasLayer THEN spanTexts ELSE <<>>]

\* shortSnippet of Layer 2 cut one word late
shortSnippetLate(words) == join(slice0(words, PartialWords + 1))

\* shortSnippet of Layer 2 cut one word early
shortSnippetEarly(words) == join(slice0(words, PartialWords - 1))

\* shortSnippet of Layer 2: words.slice(0, 15).join(" ")
shortSnippetOf(words) == join(slice0(words, PartialWords))

\* keyTokens of Layer 3 cut one token early
keyTokensShort(words) ==
  slice0(SelectSeq(words, LAMBDA w : Len(w) > TokenMinLen), MaxKeyTokens - 1)

\* keyTokens of Layer 3 without the length filter
keyTokensAll(words) ==
  slice0(SelectSeq(words, LAMBDA w : Len(w) > 0), MaxKeyTokens)

\* keyTokens taken from the end: the last 5 words longer than 4 characters
keyTokensLast(words) ==
  LET long == SelectSeq(words, LAMBDA w : Len(w) > TokenMinLen)
  IN SubSeq(long, IF Len(long) > MaxKeyTokens THEN Len(long) - MaxKeyTokens + 1
                  ELSE 1, Len(long))

\* keyTokens of Layer 3
keyTokens(words) ==
  slice0(SelectSeq(words, LAMBDA w : Len(w) > TokenMinLen), MaxKeyTokens)

\* highlightSnippetInTextLayer with Layer 3 tried before Layers 1 and 2
highlightSnippetInTextLayerTokenFirst(pageContainer, snippet) ==
  IF ~pageContainer.textLayer
    THEN [layer |-> "notextlayer", marks |-> {}, first |-> Null]
  ELSE IF Len(pageContainer.spans) = 0
    THEN [layer |-> "nospans", marks |-> {}, first |-> Null]
  ELSE
    LET spanTexts == pageContainer.spans
        normalizedSpanTexts == [i \in DOMAIN spanTexts |-> normalize(spanTexts[i])]
        normalizedPage == join(normalizedSpanTexts)
        normalizedSnippet == normalize(snippet)
        fullIndex == indexOf(normalizedPage, normalizedSnippet)
        words == splitWords(normalizedSnippet)
        shortSnippet == shortSnippetOf(words)
        partialIndex == indexOf(normalizedPage, shortSnippet)
        tokens == keyTokens(words)
        tokenHits == { i \in DOMAIN spanTexts :
                         \E t \in DOMAIN tokens :
                           includes(normalizedSpanTexts[i], tokens[t]) }
    IN IF tokenHits # {}
         THEN [layer |-> "token", marks |-> tokenHits, first |-> FirstOf(tokenHits)]
       ELSE IF fullIndex # -1
         THEN [layer |-> "full"] @@
              applyHighlightToRange(normalizedSpanTexts, fullIndex,
                                    fullIndex + Len(normalizedSnippet))
       ELSE IF Len(words) > PartialMinWords /\ partialIndex # -1
         THEN [layer |-> "partial"] @@
              applyHighlightToRange(normalizedSpanTexts, partialIndex,
                                    partialIndex + Len(shortSnippet))
       ELSE [layer |-> "nokeytokens", marks |-> {}, first |-> Null]

\* highlightSnippetInTextLayer(pageContainer, snippet).  layer names the
\* return statement taken; first is the returned element (Null for null);
\* marks are the spans that received the pdf-highlight class.
highlightSnippetInTextLayer(pageContainer, snippet) ==
  IF ~pageContainer.textLayer
    THEN [layer |-> "notextlayer", marks |-> {}, first |-> Null]
  ELSE IF Len(pageContainer.spans) = 0
    THEN [layer |-> "nospans", marks |-> {}, first |-> Null]
  ELSE
    LET spanTexts == pageContainer.spans
        normalizedSpanTexts == [i \in DOMAIN spanTexts |-> normalize(spanTexts[i])]
        normalizedPage == join(normalizedSpanTexts)
        normalizedSnippet == normalize(snippet)
        fullIndex == indexOf(normalizedPage, normalizedSnippet)
        words == splitWords(normalizedSnippet)
        shortSnippet == shortSnippetOf(words)
        partialIndex == indexOf(normalizedPage, shortSnippet)
        tokens == keyTokens(words)
        tokenHits == { i \in DOMAIN spanTexts :
                         \E t \in DOMAIN tokens :
                           includes(normalizedSpanTexts[i], tokens[t]) }
    IN IF fullIndex # -1
         THEN [layer |-> "full"] @@
              applyHighlightToRange(normalizedSpanTexts, fullIndex,
                                    fullIndex + Len(normalizedSnippet))
       ELSE IF Len(words) > PartialMinWords /\ partialIndex # -1
         THEN [layer |-> "partial"] @@
              applyHighlightToRange(normalizedSpanTexts, partialIndex,
                                    partialIndex + Len(shortSnippet))
       ELSE IF Len(tokens) = 0
         THEN [layer |-> "nokeytokens", marks |-> {}, first |-> Null]
       ELSE [layer |-> "token", marks |-> tokenHits, first |-> FirstOf(tokenHits)]

(***************************************************************************)
(* State                                                                   *)
(***************************************************************************)
VARIABLES
  session,          \* DocumentContext state: documentId, filePreviewUrl,
                    \* conversationId and currencyInfo
  highlightTarget,  \* DocumentContext state: the current HighlightTarget or NoTarget
  nextId,           \* identity of the next target object the host creates
  numPages,         \* PdfViewer state: pages of the loaded document (0 before load)
  pageContainers,   \* pageRefs.current[p] for the mounted pages: PageContainer
  pdfHighlight,     \* spans carrying the pdf-highlight class: [page, span, req]
  highlightPage,    \* PdfViewer state: page with the fallback ring, or Null
  timers,           \* pending setTimeout callbacks of highlightClause, oldest first
  last,             \* what the last step did (history)
  requests,         \* the targets activated so far, in order (history)
  fired,            \* the timer callbacks run so far, in order (history)
  normSt,           \* harness of normalize: input and results
  matchSt,          \* harness of highlightSnippetInTextLayer: input and result
  pollSt            \* an analysis tab: its query, its refetch timer and its view

vars == <<session, highlightTarget, nextId, numPages, pageContainers, pdfHighlight,
          highlightPage, timers, last, requests, fired, normSt, matchSt, pollSt>>

viewerVars == <<session, highlightTarget, nextId, numPages, pageContainers, pdfHighlight,
                highlightPage, timers, last, requests, fired>>

(***************************************************************************)
(* Bounds and input sets                                                   *)
(***************************************************************************)
\* longest raw string given to normalize in SpecNorm
MaxNormLen == 4

\* most spans of a page in SpecMatch
MaxLeaves == 3

\* most padding words in front of a snippet's tail in SpecMatch
MaxPad == 16

\* most targets the host activates in Spec
MaxRequests == 2

\* requests one analysis tab makes in SpecPoll
MaxFetches == 8

\* highest page number a target names in Spec (the document has fewer pages)
MaxTargetPage == 4

NormAlphabet == {"a", "B", ".", "$", ",", " ", "\t", "%"}

RECURSIVE StringsUpTo(_, _)
StringsUpTo(alphabet, n) ==
  IF n = 0 THEN {<<>>}
  ELSE LET shorter == StringsUpTo(alphabet, n - 1)
       IN shorter \cup { Append(s, c) : s \in { t \in shorter : Len(t) = n - 1 },
                                       c \in alphabet }

\* n copies of a word
RECURSIVE Rep(_, _)
Rep(w, n) == IF n = 0 THEN <<>> ELSE <<w>> \o Rep(w, n - 1)

wA == <<"a">>

wLorem == <<"l","o","r","e","m">>

\* raw span texts: five short words, a long word with noise, a span that
\* normalizes to the empty string, a short word
LeafPool ==
  { <<"a"," ","a"," ","a"," ","a"," ","a">>,
    <<"T","e","r","m","s",",">>,
    <<"$">>,
    <<"f","e","e">> }

PadWords == {wA, wLorem}

\* raw snippet tails: an ellipsis, a long word, a short word with a dot
TailPool ==
  { <<".",".",".">>,
    <<"t","e","r","m","s">>,
    <<"F","e","e",".">> }

SnippetPool ==
  { join(Rep(w, k) \o <<tail>>) : w \in PadWords, k \in 0..MaxPad, tail \in TailPool }

RECURSIVE SeqsUpTo(_, _)
SeqsUpTo(S, n) ==
  IF n = 0 THEN {<<>>}
  ELSE LET shorter == SeqsUpTo(S, n - 1)
       IN shorter \cup { Append(s, x) : s \in { t \in shorter : Len(t) = n - 1 },
                                       x \in S }

\* page containers of SpecMatch: no text layer, or a text layer of 0..MaxLeaves spans
ContainerPool ==
  {PageContainer(FALSE, <<>>)}
    \cup { PageContainer(TRUE, sp) : sp \in SeqsUpTo(LeafPool, MaxLeaves) }

\* the page of the worked example: the raw texts of its five spans
ExampleLeaves ==
  << <<"I","n"," ","t","h","e"," ","e","v","e","n","t"," ","o","f">>,
     <<"e","a","r","l","y"," ","t","e","r","m","i","n","a","t","i","o","n">>,
     <<"B","o","r","r","o","w","e","r"," ","s","h","a","l","l"," ","p","a",
       "y">>,
     <<"3","%"," ","o","f"," ","t","h","e">>,
     <<"o","u","t","s","t","a","n","d","i","n","g"," ","b","a","l","a","n",
       "c","e">> >>

\* the snippet of the worked example that is on the page once the ellipsis is
\* removed
ExampleSnippetFull ==
  <<"e","a","r","l","y"," ","t","e","r","m","i","n","a","t","i","o","n",".",
    ".","."," ","B","o","r","r","o","w","e","r"," ","s","h","a","l","l"," ",
    "p","a","y"," ","3","%"," ","o","f"," ","t","h","e"," ","o","u","t","s",
    "t","a","n","d","i","n","g"," ","b","a","l","a","n","c","e">>

\* the garbled snippet of the worked example; CYR_A, CYR_TE and CYR_U stand for
\* the three Cyrillic letters that follow its first letter
ExampleSnippetGarbled ==
  <<"l","CYR_A","CYR_TE","CYR_U"," ","t","e","r","m","i","n","a","t","i","o",
    "n"," ","f","e","e"," ","b","l","a","h"," ","b","l","a","h"," ","b","l",
    "a","h"," ","b","l","a","h"," ","b","l","a","h"," ","b","l","a","h">>

\* a page of three spans of five short words each and a fourth span with a long
\* word
FourLeaves ==
  << <<"a"," ","a"," ","a"," ","a"," ","a">>,
     <<"a"," ","a"," ","a"," ","a"," ","a">>,
     <<"a"," ","a"," ","a"," ","a"," ","a">>,
     <<"T","e","r","m","s",",">> >>

ExampleContainers ==
  { PageContainer(TRUE, ExampleLeaves), PageContainer(TRUE, FourLeaves) }

ExampleSnippets == { ExampleSnippetFull, ExampleSnippetGarbled }

(***************************************************************************)
(* Harness of normalize (SpecNorm)                                         *)
(***************************************************************************)
NormIdle == [pc |-> "idle", text |-> <<>>, once |-> <<>>, twice |-> <<>>]

MatchIdle ==
  [pc |-> "idle", container |-> PageContainer(FALSE, <<>>), snippet |-> <<>>,
   result |-> [layer |-> "none", marks |-> {}, first |-> Null]]

\* the tab before its query has run: no data, no request in flight, no refetch
\* timer (0 stands for refetchInterval false)
PollIdle ==
  [pc |-> "idle", tab |-> "summary", server |-> "complete", data |-> "none",
   fetching |-> FALSE, interval |-> 0, view |-> "skeleton", fetches |-> 0,
   log |-> <<>>]

NoTarget == [id |-> 0, page |-> Null, hasSnippet |-> FALSE, snippet |-> <<>>]

\* a step's observable effects: whether clearHighlights ran, the page scrolled
\* to the top of the view, the spans given the class, the span scrolled to the
\* centre, the page given the ring
NoStep ==
  [op |-> "init", req |-> 0, cleared |-> FALSE, pageScroll |-> Null,
   layer |-> "none", marked |-> {}, anchor |-> Null, ring |-> Null]

\* the context of a document session: the uploaded document's id, the object
\* URL of its preview, the chat conversation and the currency of the summary,
\* each a handle other than Null
OpenSession ==
  [documentId |-> 1, filePreviewUrl |-> 1, conversationId |-> 1,
   currencyInfo |-> 1]

ViewerIdle ==
  /\ session = OpenSession
  /\ highlightTarget = NoTarget
  /\ nextId = 1
  /\ numPages = 0
  /\ pageContainers = <<>>
  /\ pdfHighlight = {}
  /\ highlightPage = Null
  /\ timers = <<>>
  /\ last = NoStep
  /\ requests = <<>>
  /\ fired = <<>>

InitNorm ==
  /\ ViewerIdle
  /\ matchSt = MatchIdle
  /\ pollSt = PollIdle
  /\ \E s \in StringsUpTo(NormAlphabet, MaxNormLen) :
       normSt = [pc |-> "input", text |-> s, once |-> <<>>, twice |-> <<>>]

NormalizeOnce ==
  /\ normSt.pc = "input"
  /\ normSt' = [normSt EXCEPT !.pc = "once", !.once = normalize(normSt.text)]
  /\ UNCHANGED <<viewerVars, matchSt, pollSt>>

NormalizeTwice ==
  /\ normSt.pc = "once"
  /\ normSt' = [normSt EXCEPT !.pc = "twice", !.twice = normalize(normSt.once)]
  /\ UNCHANGED <<viewerVars, matchSt, pollSt>>

NextNorm == NormalizeOnce \/ NormalizeTwice

SpecNorm == InitNorm /\ [][NextNorm]_vars

(***************************************************************************)
(* Harness of highlightSnippetInTextLayer (SpecMatch)                      *)
(***************************************************************************)
InitMatch ==
  /\ ViewerIdle
  /\ normSt = NormIdle
  /\ pollSt = PollIdle
  /\ \E c \in ContainerPool \cup ExampleContainers,
        sn \in SnippetPool \cup ExampleSnippets :
       matchSt = [MatchIdle EXCEPT !.pc = "input", !.container = c, !.snippet = sn]

RunMatch ==
  /\ matchSt.pc = "input"
  /\ matchSt' = [matchSt EXCEPT
                   !.pc = "done",
                   !.result = highlightSnippetInTextLayer(matchSt.container,
                                                          matchSt.snippet)]
  /\ UNCHANGED <<viewerVars, normSt, pollSt>>

NextMatch == RunMatch

SpecMatch == InitMatch /\ [][NextMatch]_vars

(***************************************************************************)
(* The analysis tabs (SpecPoll): SummaryTab and RedFlagsTab                *)
(***************************************************************************)
\* the processing status values of the API
ProcessingStatus == {"pending", "processing", "complete", "failed"}

\* the statuses the analysis can move to on the server
NextStatus(st) ==
  CASE st = "pending" -> {"processing"}
    [] st = "processing" -> {"complete", "failed"}
    [] OTHER -> {}

\* refetchInterval: 3000 ms while the data's status is "processing", false
\* (here 0) otherwise
refetchInterval(data) == IF data = "processing" THEN RefetchMs ELSE 0

\* what the tab renders: the skeleton while loading, without data or while the
\* status is "processing"; the failure message for "failed"; otherwise the
\* branch that renders data.data as the results
tabView(isLoading, data) ==
  IF isLoading \/ data = "none" \/ data = "processing" THEN "skeleton"
  ELSE IF data = "failed" THEN "failed"
  ELSE "results"

\* the tab mounts with a document id: the query is enabled and fetches; the
\* analysis is in any of its statuses
InitPoll ==
  /\ ViewerIdle
  /\ normSt = NormIdle
  /\ matchSt = MatchIdle
  /\ \E tab \in {"summary", "redflags"}, st \in ProcessingStatus :
       pollSt = [PollIdle EXCEPT !.pc = "run", !.tab = tab, !.server = st,
                                 !.fetching = TRUE, !.fetches = 1]

\* the analysis moves on to its next status on the server
ServerAdvance ==
  /\ pollSt.pc = "run"
  /\ \E st \in NextStatus(pollSt.server) :
       pollSt' = [pollSt EXCEPT !.server = st]
  /\ UNCHANGED <<viewerVars, normSt, matchSt>>

\* the request in flight is answered with the current status: the query's
\* data is replaced, refetchInterval is evaluated on it and the tab renders
Respond ==
  /\ pollSt.pc = "run"
  /\ pollSt.fetching
  /\ pollSt' = [pollSt EXCEPT !.data = pollSt.server,
                              !.fetching = FALSE,
                              !.interval = refetchInterval(pollSt.server),
                              !.view = tabView(FALSE, pollSt.server),
                              !.log = Append(pollSt.log, pollSt.server)]
  /\ UNCHANGED <<viewerVars, normSt, matchSt>>

\* the refetch timer runs out and the query fetches again
PollTick ==
  /\ pollSt.pc = "run"
  /\ ~pollSt.fetching
  /\ pollSt.interval # 0
  /\ pollSt.fetches < MaxFetches
  /\ pollSt' = [pollSt EXCEPT !.fetching = TRUE, !.fetches = pollSt.fetches + 1]
  /\ UNCHANGED <<viewerVars, normSt, matchSt>>

NextPoll == ServerAdvance \/ Respond \/ PollTick

SpecPoll == InitPoll /\ [][NextPoll]_vars

(***************************************************************************)
(* The viewer (Spec): DocumentContext and the PdfViewer component          *)
(***************************************************************************)
\* the raw span texts of the text layer of each page of the loaded document;
\* the last page is an image-only page whose text layer has no spans
DocText ==
  << << <<"T","e","r","m","s",",">>, <<"f","e","e">> >>,
     << <<"a"," ","a"," ","a"," ","a"," ","a">>, <<"$">>, <<"f","e","e">> >>,
     << >> >>

\* the snippets the host attaches to targets: one that is on page 1 only, and
\* the empty string
TargetSnippets == { <<"t","e","r","m","s">>, <<>> }

\* the targets the host can activate: with or without a snippet
TargetInputs ==
  { [page |-> p, hasSnippet |-> TRUE, snippet |-> sn] :
      p \in 1..MaxTargetPage, sn \in TargetSnippets }
    \cup { [page |-> p, hasSnippet |-> FALSE, snippet |-> <<>>] :
             p \in 1..MaxTargetPage }

Init ==
  /\ ViewerIdle
  /\ normSt = NormIdle
  /\ matchSt = MatchIdle
  /\ pollSt = PollIdle

\* Document onLoadSuccess: setNumPages(n); the page containers mount, their
\* text layers are not rendered yet
LoadDocument ==
  /\ session.filePreviewUrl # Null
  /\ numPages = 0
  /\ numPages' = Len(DocText)
  /\ pageContainers' = [p \in 1..Len(DocText) |-> PageContainer(FALSE, <<>>)]
  /\ last' = [NoStep EXCEPT !.op = "load"]
  /\ UNCHANGED <<session, highlightTarget, nextId, pdfHighlight, highlightPage, timers,
                 requests, fired, normSt, matchSt, pollSt>>

\* the renderer (re)renders the text layer of page p: its spans are created
\* anew, so none of them carries the class
TextLayerRender(p) ==
  /\ session.filePreviewUrl # Null
  /\ p \in DOMAIN pageContainers
  /\ pageContainers' = [pageContainers EXCEPT ![p] = PageContainer(TRUE, DocText[p])]
  /\ pdfHighlight' = { m \in pdfHighlight : m.page # p }
  /\ last' = [NoStep EXCEPT !.op = "render"]
  /\ UNCHANGED <<session, highlightTarget, nextId, numPages, highlightPage, timers,
                 requests, fired, normSt, matchSt, pollSt>>

\* clearHighlights: every element that carries the class has it removed
clearHighlights(marked) == marked \ { m \in marked : TRUE }

\* the spans of a page in a set of marks
MarkedOn(marked, page) == { m.span : m \in { x \in marked : x.page = page } }

\* classList.toggle in place of classList.add: a span that carries the class
\* loses it
classListToggle(marked, page, spans, req) ==
  { m \in marked : ~(m.page = page /\ m.span \in spans) }
    \cup { [page |-> page, span |-> i, req |-> req] :
             i \in spans \ MarkedOn(marked, page) }

\* spans[i].classList.add("pdf-highlight") for the spans of a match; adding the
\* class to a span that carries it leaves its class list as it is
classListAdd(marked, page, spans, req) ==
  marked \cup { [page |-> page, span |-> i, req |-> req] : i \in spans }

\* the dependency comparison of the effect made on the targets' fields
EffectDepsChangedByValue(old, new) ==
  \/ old.page # new.page
  \/ old.hasSnippet # new.hasSnippet
  \/ old.snippet # new.snippet

\* the dependency comparison of useEffect(..., [highlightTarget, highlightClause]):
\* Object.is on the target object (highlightClause never changes)
EffectDepsChanged(old, new) == old.id # new.id

\* highlightClause applying the match at once, without the setTimeout
highlightClauseNoWait(target) ==
  LET mounted == target.page \in DOMAIN pageContainers
      r == IF mounted
             THEN highlightSnippetInTextLayer(pageContainers[target.page],
                                              target.snippet)
             ELSE [layer |-> "nopage", marks |-> {}, first |-> Null]
  IN /\ pdfHighlight' = { [page |-> target.page, span |-> i, req |-> target.id] :
                            i \in r.marks }
     /\ highlightPage' = IF mounted /\ r.first = Null THEN target.page ELSE Null
     /\ timers' = timers
     /\ last' = [NoStep EXCEPT !.op = "activate", !.req = target.id,
                               !.cleared = TRUE,
                               !.pageScroll = IF mounted THEN target.page ELSE Null,
                               !.layer = r.layer, !.marked = r.marks,
                               !.anchor = r.first]

\* the body of the effect for a target, that is highlightClause(page, snippet):
\* clearHighlights, setHighlightPage(null), jumpToPage(page), setTimeout
highlightClause(target) ==
  /\ pdfHighlight' = clearHighlights(pdfHighlight)
  /\ highlightPage' = Null
  /\ timers' = Append(timers, target)
  /\ last' = [NoStep EXCEPT !.op = "activate", !.req = target.id,
                            !.cleared = TRUE,
                            !.pageScroll = IF target.page \in DOMAIN pageContainers
                                             THEN target.page ELSE Null]

\* the host calls setHighlightTarget with a fresh target object; the effect of
\* PdfViewer runs when its dependency changed
ActivateTarget(input) ==
  /\ session.documentId # Null
  /\ nextId <= MaxRequests
  /\ LET target == [id |-> nextId, page |-> input.page,
                    hasSnippet |-> input.hasSnippet, snippet |-> input.snippet]
     IN /\ highlightTarget' = target
        /\ nextId' = nextId + 1
        /\ requests' = Append(requests, target)
        /\ IF EffectDepsChanged(highlightTarget, target)
             THEN highlightClause(target)
             ELSE /\ last' = [NoStep EXCEPT !.op = "noeffect", !.req = target.id]
                  /\ UNCHANGED <<pdfHighlight, highlightPage, timers>>
  /\ UNCHANGED <<session, numPages, pageContainers, fired, normSt, matchSt, pollSt>>

\* the host calls setHighlightTarget(null) while a target is set; the effect
\* runs clearHighlights and setHighlightPage(null)
ClearTarget ==
  /\ highlightTarget # NoTarget
  /\ highlightTarget' = NoTarget
  /\ pdfHighlight' = clearHighlights(pdfHighlight)
  /\ highlightPage' = Null
  /\ last' = [NoStep EXCEPT !.op = "clear", !.cleared = TRUE]
  /\ UNCHANGED <<session, nextId, numPages, pageContainers, timers, requests, fired,
                 normSt, matchSt, pollSt>>

\* clearDocument that leaves currencyInfo as it is
clearDocumentKeepCurrency(s) ==
  [s EXCEPT !.documentId = Null, !.filePreviewUrl = Null,
            !.conversationId = Null]

\* the four setters of clearDocument other than setHighlightTarget(null)
clearDocument(s) ==
  [documentId |-> Null, filePreviewUrl |-> Null, conversationId |-> Null,
   currencyInfo |-> Null]

\* the host calls clearDocument: the context's fields become null; PdfViewer
\* renders its placeholder, so the Document and its pages unmount and their
\* refs become null; the effect runs when the target was set, with
\* clearHighlights and setHighlightPage(null)
ClearDocument ==
  /\ session.filePreviewUrl # Null
  /\ session' = clearDocument(session)
  /\ highlightTarget' = NoTarget
  /\ pageContainers' = <<>>
  /\ LET effect == highlightTarget # NoTarget
         kept == IF effect THEN clearHighlights(pdfHighlight) ELSE pdfHighlight
     IN /\ pdfHighlight' = { m \in kept : m.page \in DOMAIN pageContainers' }
        /\ highlightPage' = IF effect THEN Null ELSE highlightPage
        /\ last' = [NoStep EXCEPT !.op = "cleardoc", !.req = highlightTarget.id,
                                  !.cleared = effect]
  /\ UNCHANGED <<nextId, numPages, timers, requests, fired, normSt, matchSt, pollSt>>

\* the callback's scrollTarget when a target without a snippet has every span
\* of its page marked
scrollTargetWholePage(t) ==
  IF t.hasSnippet /\ t.snippet # <<>>
    THEN highlightSnippetInTextLayer(pageContainers[t.page], t.snippet)
    ELSE [layer |-> "nosnippet",
          marks |-> DOMAIN pageContainers[t.page].spans,
          first |-> FirstOf(DOMAIN pageContainers[t.page].spans)]

\* the callback's scrollTarget computed from the page container as it was when
\* the page mounted, before its text layer rendered
scrollTargetOfMounted(t) ==
  IF t.hasSnippet /\ t.snippet # <<>>
    THEN highlightSnippetInTextLayer(PageContainer(FALSE, <<>>), t.snippet)
    ELSE [layer |-> "nosnippet", marks |-> {}, first |-> Null]

\* the callback's scrollTarget for a mounted page: the result of
\* highlightSnippetInTextLayer when the snippet is truthy (neither undefined
\* nor the empty string), null otherwise
scrollTargetOf(t) ==
  IF t.hasSnippet /\ t.snippet # <<>>
    THEN highlightSnippetInTextLayer(pageContainers[t.page], t.snippet)
    ELSE [layer |-> "nosnippet", marks |-> {}, first |-> Null]

\* the page given to setHighlightPage when the guard on the page container is
\* left out
fallbackPageUnguarded(t, mounted, r) ==
  IF r.first = Null THEN t.page ELSE Null

\* the ring set only when the match went past its guards on the text layer
fallbackPageMatchedOnly(t, mounted, r) ==
  IF mounted /\ r.first = Null /\ r.layer \notin {"notextlayer", "nospans"}
    THEN t.page ELSE Null

\* the page given to setHighlightPage by the callback, Null when it is not
\* called: the callback returns early without a page container, and scrolls to
\* the anchor instead when the match returned one
fallbackPage(t, mounted, r) ==
  IF mounted /\ r.first = Null THEN t.page ELSE Null

\* the oldest pending setTimeout callback of highlightClause runs (all timers
\* have the same delay, so they run in the order they were set)
TimerFire ==
  /\ timers # <<>>
  /\ LET t == Head(timers)
         mounted == t.page \in DOMAIN pageContainers
         r == IF mounted
                THEN scrollTargetOf(t)
                ELSE [layer |-> "nopage", marks |-> {}, first |-> Null]
         ring == fallbackPage(t, mounted, r)
         step == [NoStep EXCEPT !.op = "timer", !.req = t.id, !.layer = r.layer,
                                !.marked = r.marks, !.anchor = r.first,
                                !.ring = ring]
     IN /\ timers' = Tail(timers)
        /\ pdfHighlight' = classListAdd(pdfHighlight, t.page, r.marks, t.id)
        /\ highlightPage' = IF ring # Null THEN ring ELSE highlightPage
        /\ last' = step
        /\ fired' = Append(fired, step)
  /\ UNCHANGED <<session, highlightTarget, nextId, numPages, pageContainers, requests,
                 normSt, matchSt, pollSt>>

Next ==
  \/ LoadDocument
  \/ \E p \in 1..Len(DocText) : TextLayerRender(p)
  \/ \E input \in TargetInputs : ActivateTarget(input)
  \/ ClearTarget
  \/ ClearDocument
  \/ TimerFire

Spec == Init /\ [][Next]_vars

(***************************************************************************)
(* Properties of the viewer (Spec)                                         *)
(***************************************************************************)
\* C1: once a newer target or a clear has been received, the earlier target's
\* timer does nothing: it marks no leaf, issues no anchor scroll and sets no
\* fallback ring; only the most recent target is honored.
C1_StaleTimerCancelled ==
  (last.op = "timer" /\ last.req # highlightTarget.id)
    => /\ last.marked = {}
       /\ last.anchor = Null
       /\ last.ring = Null

\* C2: in every reachable state all leaves that carry the highlight marker
\* belong to one page and were marked for the most recently activated target.
C2_SingleHighlightSet ==
  \A m \in pdfHighlight :
    /\ m.req = highlightTarget.id
    /\ m.page = highlightTarget.page

\* C3: while the highlight target is absent (after an explicit clear and until
\* the next activation) no leaf carries the marker and no page carries the
\* fallback ring.
C3_ClearLeavesIdle ==
  highlightTarget = NoTarget => (pdfHighlight = {} /\ highlightPage = Null)

SameFields(a, b) ==
  /\ a.page = b.page
  /\ a.hasSnippet = b.hasSnippet
  /\ a.snippet = b.snippet

\* C4: activating a target with the same page and snippet as the active one,
\* as a fresh object, re-runs the whole sequence: clearHighlights and the ring
\* reset run, the page is scrolled to, a new timer is set, and when a timer of
\* a target with a non-empty snippet fires on a page with spans the match is attempted
\* and its leaves are marked.
C4_ReactivationReruns ==
  /\ [][ (/\ highlightTarget # NoTarget
          /\ highlightTarget' # NoTarget
          /\ highlightTarget'.id # highlightTarget.id
          /\ SameFields(highlightTarget', highlightTarget))
         => /\ last'.op = "activate"
            /\ last'.cleared
            /\ pdfHighlight' = {}
            /\ highlightPage' = Null
            /\ (highlightTarget'.page \in DOMAIN pageContainers
                  => last'.pageScroll = highlightTarget'.page)
            /\ timers' = Append(timers, highlightTarget') ]_vars
  /\ [][ (/\ fired' # fired
          /\ Head(timers).page \in DOMAIN pageContainers
          /\ Head(timers).hasSnippet
          /\ Head(timers).snippet # <<>>
          /\ pageContainers[Head(timers).page].textLayer
          /\ Len(pageContainers[Head(timers).page].spans) > 0)
         => /\ last'.layer \in {"full", "partial", "token", "nokeytokens"}
            /\ \A i \in last'.marked :
                 [page |-> Head(timers).page, span |-> i, req |-> Head(timers).id]
                   \in pdfHighlight' ]_vars

\* the same target was activated twice; the first one's timer marked leaves,
\* the second activation cleared them, and the second one's timer has just
\* marked them again
C4_Witness ==
  /\ Len(requests) = 2 /\ Len(fired) = 2
  /\ SameFields(requests[1], requests[2])
  /\ fired[1].req = 1 /\ fired[1].marked # {}
  /\ fired[2].req = 2 /\ fired[2].marked = fired[1].marked
  /\ last = fired[2]
  /\ highlightTarget = requests[2]
  /\ pdfHighlight # {}
  /\ \A m \in pdfHighlight : m.req = 2

\* C11: when the timer of a target whose snippet is absent fires on a mounted
\* page, the result is none without the leaves of the page being consulted:
\* the step marks no leaf on any page, has no anchor, and sets the fallback
\* ring on the target page, whatever leaves the page has.
C11_AbsentSnippetFallback ==
  [][ (/\ fired' # fired
       /\ ~Head(timers).hasSnippet
       /\ Head(timers).page \in DOMAIN pageContainers)
      => /\ last'.layer = "nosnippet"
         /\ last'.marked = {}
         /\ last'.anchor = Null
         /\ last'.ring = Head(timers).page
         /\ highlightPage' = Head(timers).page
         /\ pdfHighlight' = pdfHighlight ]_vars

\* the timer of a target without a snippet has fired on a page whose text layer
\* has spans: the ring is on that page and no leaf is marked
C11_Witness ==
  /\ last.op = "timer"
  /\ ~requests[last.req].hasSnippet
  /\ requests[last.req].page \in DOMAIN pageContainers
  /\ pageContainers[requests[last.req].page].textLayer
  /\ Len(pageContainers[requests[last.req].page].spans) > 0
  /\ highlightPage = requests[last.req].page
  /\ pdfHighlight = {}

C13_MarksXorRing ==
  /\ ~(pdfHighlight # {} /\ highlightPage # Null)
  /\ (/\ last.op = "timer"
      /\ last.req = highlightTarget.id
      /\ highlightTarget.page \in DOMAIN pageContainers)
       => IF last.anchor = Null
            THEN highlightPage = highlightTarget.page
            ELSE pdfHighlight # {}

\* the leaves that carry the class, whoever marked them
MarkedLeaves == { [page |-> m.page, span |-> m.span] : m \in pdfHighlight }

\* C16: both operations of the applier are idempotent. A step that runs
\* clearHighlights leaves no leaf marked, also when none was marked before it,
\* and running it again on the result changes nothing. A timer step that marks
\* leaves adds them to the marked leaves; when they were all marked already the
\* marked leaves are the same as before, and marking them again changes
\* nothing.
C16_ApplierIdempotent ==
  /\ [][ last'.cleared
           => /\ pdfHighlight' = {}
              /\ clearHighlights(pdfHighlight') = pdfHighlight' ]_vars
  /\ [][ fired' # fired
           => LET new == { [page |-> Head(timers).page, span |-> i] :
                             i \in last'.marked }
              IN /\ MarkedLeaves' = MarkedLeaves \cup new
                 /\ new \subseteq MarkedLeaves => MarkedLeaves' = MarkedLeaves
                 /\ classListAdd(pdfHighlight', Head(timers).page, last'.marked,
                                 Head(timers).id) = pdfHighlight' ]_vars

\* two targets were activated one after the other, so that clearHighlights ran
\* with no leaf marked, and then both timers marked the same leaf
C16_Witness ==
  /\ last.op = "timer"
  /\ last.marked # {}
  /\ \E m \in pdfHighlight :
       /\ m.req # last.req
       /\ m.page = requests[last.req].page
       /\ m.span \in last.marked
  /\ Cardinality(MarkedLeaves) = Cardinality(last.marked)

\* C17: the steps of a request are ordered. The step that receives a target
\* runs clearHighlights and removes the ring first. For an absent target
\* nothing else happens: no scroll, no timer, no match. For a present target
\* the page is scrolled to and a timer is set, and no match is attempted and no
\* leaf marked in that step; a match is attempted and leaves are marked only in
\* the step of a timer that an earlier step has set.
C17_StepsOrdered ==
  /\ [][ highlightTarget' # highlightTarget
           => /\ last'.cleared
              /\ pdfHighlight' = {}
              /\ highlightPage' = Null
              /\ last'.layer = "none"
              /\ last'.marked = {} /\ last'.anchor = Null /\ last'.ring = Null
              /\ fired' = fired
              /\ IF highlightTarget' = NoTarget
                   THEN last'.pageScroll = Null /\ timers' = timers
                   ELSE /\ highlightTarget'.page \in DOMAIN pageContainers
                             => last'.pageScroll = highlightTarget'.page
                        /\ timers' = Append(timers, highlightTarget') ]_vars
  /\ [][ (last'.layer # "none" \/ pdfHighlight' \ pdfHighlight # {}
            \/ (highlightPage' # Null /\ highlightPage' # highlightPage))
           => /\ last'.op = "timer"
              /\ timers # <<>>
              /\ last'.req = Head(timers).id
              /\ \E k \in 1..Len(requests) : requests[k] = Head(timers)
              /\ highlightTarget' = highlightTarget ]_vars

\* a target was received with leaves marked, its step cleared them and scrolled
\* to its page, and its timer has then fired and marked a leaf
C17_Witness ==
  /\ Len(requests) = 2
  /\ Len(fired) = 2
  /\ fired[1].req = 1 /\ fired[1].marked # {}
  /\ last = fired[2]
  /\ last.req = 2 /\ last.marked # {}
  /\ \A m \in pdfHighlight : m.req = 2
  /\ timers = <<>>

\* C18: every match attempt uses the leaves that the target page has when the
\* timer fires: its result is that of highlightSnippetInTextLayer on the page
\* container of that moment, so leaves that mounted during the wait are
\* matched; and every marked leaf is a leaf of the current text layer of its
\* page, so no leaf that a re-render replaced is marked.
C18_IndexBuiltAtFire ==
  /\ [][ (/\ fired' # fired
          /\ Head(timers).page \in DOMAIN pageContainers
          /\ Head(timers).hasSnippet
          /\ Head(timers).snippet # <<>>)
           => LET r == highlightSnippetInTextLayer(
                         pageContainers[Head(timers).page], Head(timers).snippet)
              IN /\ last'.layer = r.layer
                 /\ last'.marked = r.marks
                 /\ last'.anchor = r.first
                 /\ \A i \in r.marks :
                      [page |-> Head(timers).page, span |-> i,
                       req |-> Head(timers).id] \in pdfHighlight' ]_vars
  /\ [](\A m \in pdfHighlight :
          /\ m.page \in DOMAIN pageContainers
          /\ pageContainers[m.page].textLayer
          /\ m.span \in DOMAIN pageContainers[m.page].spans)
  /\ [][ \A p \in DOMAIN pageContainers :
           (p \notin DOMAIN pageContainers' \/ pageContainers'[p] # pageContainers[p])
             => \A m \in pdfHighlight' : m.page # p ]_vars

\* two targets for the same page were received before its text layer rendered;
\* the first timer found no text layer and set the ring, the text layer then
\* rendered, and the second timer matched and marked its leaves
C18_Witness ==
  /\ Len(fired) = 2
  /\ requests[1].page = requests[2].page
  /\ fired[1].req = 1 /\ fired[1].layer = "notextlayer"
  /\ highlightPage = requests[1].page
  /\ last = fired[2]
  /\ last.req = 2 /\ last.layer = "full" /\ last.marked # {}
  /\ pdfHighlight # {}

\* C24: a missing text layer is treated as no match: when the timer fires for
\* a mounted page that has no text layer, or whose text layer has no leaves,
\* the match returns null for every snippet, no leaf of the page is marked and
\* the fallback ring is set on the target page.
C24_MissingTextLayerFallback ==
  (/\ last.op = "timer"
   /\ requests[last.req].page \in DOMAIN pageContainers
   /\ \/ ~pageContainers[requests[last.req].page].textLayer
      \/ Len(pageContainers[requests[last.req].page].spans) = 0)
    => LET t == requests[last.req]
       IN /\ \A sn \in SnippetPool \cup ExampleSnippets \cup TargetSnippets :
               LET r == highlightSnippetInTextLayer(pageContainers[t.page], sn)
               IN r.first = Null /\ r.marks = {}
          /\ last.layer \in {"notextlayer", "nospans", "nosnippet"}
          /\ last.marked = {}
          /\ last.anchor = Null
          /\ \A m \in pdfHighlight : m.page # t.page
          /\ last.ring = t.page
          /\ highlightPage = t.page

\* the timer of a target with a snippet fired on the image-only page, whose
\* text layer has rendered without leaves, and set the ring on it
C24_Witness ==
  /\ Len(fired) = 1
  /\ last = fired[1]
  /\ last.layer = "nospans"
  /\ requests[1].snippet # <<>>
  /\ pageContainers[requests[1].page].textLayer
  /\ highlightPage = requests[1].page
  /\ pdfHighlight = {}

\* C25: clearDocument clears the whole document session: after it documentId,
\* filePreviewUrl, conversationId, highlightTarget and currencyInfo are null,
\* no leaf carries the mark and no page shows the fallback ring; when a target
\* was set, the viewer's effect for the absent target has run clearHighlights
\* and setHighlightPage(null).
C25_ClearDocumentClears ==
  /\ session.filePreviewUrl = Null
       => /\ session.documentId = Null
          /\ session.conversationId = Null
          /\ session.currencyInfo = Null
          /\ highlightTarget = NoTarget
          /\ pdfHighlight = {}
          /\ highlightPage \notin DOMAIN pageContainers
  /\ last.op = "cleardoc"
       => /\ last.cleared <=> last.req # NoTarget.id
          /\ last.cleared => highlightPage = Null

\* a target's timer marked leaves, and clearDocument then replaced that target
\* by null
C25_Witness ==
  /\ last.op = "cleardoc"
  /\ last.cleared
  /\ fired # <<>>
  /\ fired[Len(fired)].req = last.req
  /\ fired[Len(fired)].marked # {}
  /\ session.documentId = Null
  /\ pdfHighlight = {}

\* C29: a timer step whose match attempt returns null adds the class to no
\* span: the marked spans of every page are the same after the step as before
\* it.  No timer step, whatever it returns, changes the text or the order of
\* the spans of any page.
C29_NoAnchorNoMarks ==
  [][ fired' # fired
        => /\ pageContainers' = pageContainers
           /\ last'.anchor = Null
                => /\ last'.marked = {}
                   /\ pdfHighlight' = pdfHighlight
                   /\ MarkedLeaves' = MarkedLeaves ]_vars

\* a match attempt on a mounted page with spans went through to Layer 3 and
\* returned null while spans marked by an earlier request were still marked
C29_Witness ==
  /\ last.op = "timer"
  /\ last.layer = "token"
  /\ last.anchor = Null
  /\ pdfHighlight # {}
  /\ \A m \in pdfHighlight : m.req # last.req

(***************************************************************************)
(* Properties of normalize (SpecNorm)                                      *)
(***************************************************************************)
\* C9: normalize is idempotent: for every input string s,
\* normalize(normalize(s)) equals normalize(s).
C9_NormalizeIdempotent ==
  normSt.pc = "twice" => normSt.twice = normSt.once

\* the characters that the output of normalize may contain
NormalizedChars ==
  Range(LowerCase) \cup Digits \cup {"_", " ", ".", "%", "(", ")", "-"}

\* C23: normalize is total and its output has a fixed shape: it contains only
\* lower-case word characters, single spaces and the characters . % ( ) -, no
\* currency symbol, no two consecutive whitespace characters, and no leading
\* or trailing whitespace.
C23_NormalizeShape ==
  normSt.pc \in {"once", "twice"}
    => LET out == normSt.once
       IN /\ \A i \in DOMAIN out :
               /\ out[i] \in NormalizedChars
               /\ out[i] \notin CurrencySymbols
               /\ out[i] \in WhiteSpace => out[i] = " "
          /\ \A i \in 1..(Len(out) - 1) :
               ~(out[i] \in WhiteSpace /\ out[i + 1] \in WhiteSpace)
          /\ out # <<>> => (out[1] \notin WhiteSpace /\ out[Len(out)] \notin WhiteSpace)

\* normalize ran on an input with an upper-case letter, a currency symbol and
\* whitespace at both ends, and its output is not empty
C23_Witness ==
  /\ normSt.pc = "once"
  /\ Len(normSt.text) >= 4
  /\ normSt.text[1] \in WhiteSpace
  /\ normSt.text[Len(normSt.text)] \in WhiteSpace
  /\ "B" \in Range(normSt.text)
  /\ "$" \in Range(normSt.text)
  /\ normSt.once = <<"b">>

(***************************************************************************)
(* Properties of the match engine (SpecMatch)                              *)
(***************************************************************************)
Min(a, b) == IF a < b THEN a ELSE b

\* what the claims speak of for a page container and a raw snippet: the
\* normalized span texts, the page string, the span ranges, the normalized
\* snippet and its words, the leftmost occurrence of the snippet and of the
\* join of its first 15 words, its words longer than 4 characters and, for each
\* of these, whether some span's normalized text contains it
Facts(container, snippet) ==
  LET norms == [i \in DOMAIN container.spans |-> normalize(container.spans[i])]
      page == join(norms)
      snip == normalize(snippet)
      words == splitWords(snip)
      first15 == join(SubSeq(words, 1, Min(PartialWords, Len(words))))
      long == SelectSeq(words, LAMBDA w : Len(w) >= 5)
  IN [norms |-> norms,
      page |-> page,
      start |-> [i \in DOMAIN norms |-> SpanStart(norms, i)],
      end |-> [i \in DOMAIN norms |-> SpanEnd(norms, i)],
      snip |-> snip,
      words |-> words,
      fullAt |-> indexOf(page, snip),
      first15 |-> first15,
      partialAt |-> IF Len(words) >= PartialMinWords + 1
                      THEN indexOf(page, first15) ELSE -1,
      long |-> long,
      onLeaf |-> [k \in DOMAIN long |->
                    \E i \in DOMAIN norms : includes(norms[i], long[k])]]

MFacts == Facts(matchSt.container, matchSt.snippet)

MDone == matchSt.pc = "done" /\ matchSt.container.textLayer

MResult == matchSt.result

\* spans whose half-open range [start, end) contains offset o
LeavesAt(f, o) == { i \in DOMAIN f.norms : f.start[i] <= o /\ o < f.end[i] }

\* spans whose range overlaps the window [from, to)
Overlapping(f, from, to) ==
  { i \in DOMAIN f.norms : f.end[i] > from /\ f.start[i] < to }

PhraseTiersFail(f) == f.fullAt = -1 /\ f.partialAt = -1

\* C5 as stated (on a page that has leaves): whenever the normalized snippet
\* is a substring of the page's normalized concatenation, Tier FULL succeeds,
\* the marked set is non-empty and includes the leaf containing the first
\* character of the occurrence.
C5_FullSucceedsOriginal ==
  (MDone /\ Len(matchSt.container.spans) > 0) =>
    LET f == MFacts
    IN f.fullAt # -1
         => /\ MResult.layer = "full"
            /\ MResult.first # Null
            /\ MResult.marks # {}
            /\ LeavesAt(f, f.fullAt) # {}
            /\ LeavesAt(f, f.fullAt) \subseteq MResult.marks

\* C5 amended: whenever the normalized snippet is non-empty and is a substring
\* of the page's normalized concatenation, Tier FULL succeeds, the marked set
\* is non-empty and includes the leaf containing the first character of the
\* leftmost occurrence.
C5_FullSucceeds ==
  MDone =>
    LET f == MFacts
    IN (f.snip # <<>> /\ f.fullAt # -1)
         => /\ MResult.layer = "full"
            /\ MResult.first # Null
            /\ MResult.marks # {}
            /\ LeavesAt(f, f.fullAt) # {}
            /\ LeavesAt(f, f.fullAt) \subseteq MResult.marks

\* a FULL match of a non-empty snippet that starts in a later span and runs
\* across a span boundary
C5_Witness ==
  /\ MDone
  /\ LET f == MFacts
     IN /\ f.snip # <<>>
        /\ f.fullAt > 0
        /\ Cardinality(MResult.marks) >= 2
        /\ 1 \notin MResult.marks

\* C6: for a snippet of at least 6 normalized words, if Tier FULL fails but
\* the single-space join of its first 15 normalized words occurs in the page,
\* Tier PARTIAL succeeds and marks the leaves overlapping that occurrence.
C6_PartialSucceeds ==
  MDone =>
    LET f == MFacts
    IN (f.fullAt = -1 /\ Len(f.words) >= 6 /\ f.partialAt # -1)
         => /\ MResult.layer = "partial"
            /\ MResult.first # Null
            /\ MResult.marks # {}
            /\ MResult.marks = Overlapping(f, f.partialAt, f.partialAt + Len(f.first15))

\* a snippet of more than 15 words whose 15-word prefix is on the page while
\* the whole snippet is not
C6_Witness ==
  /\ MDone
  /\ LET f == MFacts
     IN /\ f.fullAt = -1 /\ f.partialAt # -1
        /\ Len(f.words) > PartialWords
        /\ Cardinality(MResult.marks) >= 2

\* C7 as stated: if both phrase tiers fail and at least one word of the
\* normalized snippet longer than 4 characters appears in the normalized text
\* of any leaf, Tier TOKEN succeeds.
C7_TokenSucceedsOriginal ==
  MDone =>
    LET f == MFacts
    IN (PhraseTiersFail(f) /\ \E k \in DOMAIN f.long : f.onLeaf[k])
         => /\ MResult.layer = "token"
            /\ MResult.first # Null
            /\ MResult.marks # {}

\* C7 amended: if both phrase tiers fail and at least one of the first 5
\* words of the normalized snippet that are longer than 4 characters appears in
\* the normalized text of any leaf, Tier TOKEN succeeds.
C7_TokenSucceeds ==
  MDone =>
    LET f == MFacts
    IN (PhraseTiersFail(f) /\ \E k \in DOMAIN f.long : k <= 5 /\ f.onLeaf[k])
         => /\ MResult.layer = "token"
            /\ MResult.first # Null
            /\ MResult.marks # {}

\* the only long word on the page is the fifth long word of the snippet
C7_Witness ==
  /\ MDone
  /\ LET f == MFacts
     IN /\ PhraseTiersFail(f)
        /\ Len(f.long) = 5
        /\ f.onLeaf[5]
        /\ \A k \in 1..4 : ~f.onLeaf[k]
        /\ MResult.layer = "token"
        /\ MResult.marks # {}

\* C8: if both phrase tiers fail and the normalized snippet contains no word
\* longer than 4 characters, the match result is NONE and no leaf is marked.
C8_NoLongWordNone ==
  MDone =>
    LET f == MFacts
    IN (PhraseTiersFail(f) /\ f.long = <<>>)
         => MResult.first = Null /\ MResult.marks = {}

\* a snippet of short words only, one of which occurs in a span of the page,
\* that no phrase tier finds
C8_Witness ==
  /\ MDone
  /\ LET f == MFacts
     IN /\ PhraseTiersFail(f)
        /\ f.long = <<>>
        /\ \E k \in DOMAIN f.words, i \in DOMAIN f.norms :
             includes(f.norms[i], f.words[k])
        /\ MResult.first = Null

\* C10: for a non-empty leaf sequence the ranges used by the matcher are in
\* leaf order and non-overlapping, exactly one separator lies between
\* consecutive ranges, every non-separator offset of the page string lies in
\* exactly one range, and the page string restricted to a range is that
\* leaf's normalized text.
C10_RangesPartitionPage ==
  (MDone /\ Len(matchSt.container.spans) > 0) =>
    LET f == MFacts
        n == Len(f.norms)
        separators == { f.end[i] : i \in 1..(n - 1) }
    IN /\ f.start[1] = 0
       /\ f.end[n] = Len(f.page)
       /\ \A i \in 1..n : f.start[i] <= f.end[i]
       /\ \A i \in 1..(n - 1) :
            /\ f.start[i + 1] = f.end[i] + 1
            /\ f.page[f.end[i] + 1] = " "
       /\ \A o \in 0..(Len(f.page) - 1) :
            o \notin separators => Cardinality(LeavesAt(f, o)) = 1
       /\ \A o \in separators : LeavesAt(f, o) = {}
       /\ \A i \in 1..n : SubSeq(f.page, f.start[i] + 1, f.end[i]) = f.norms[i]

\* a page of several spans, one of which normalizes to the empty string
C10_Witness ==
  /\ MDone /\ Len(matchSt.container.spans) >= 3
  /\ LET f == MFacts
     IN /\ \E i \in DOMAIN f.norms : f.norms[i] = <<>> /\ i > 1 /\ i < Len(f.norms)
        /\ \E i \in DOMAIN f.norms : Len(f.norms[i]) > 1

\* C14: for the five leaves of the worked example and the snippet "early
\* termination... Borrower shall pay 3% of the outstanding balance", the match
\* succeeds through the full tier and marks exactly leaves 2 to 5; leaf 1 is
\* not marked and leaf 2 is the anchor.
C14_ExampleFullTier ==
  (/\ matchSt.pc = "done"
   /\ matchSt.container = PageContainer(TRUE, ExampleLeaves)
   /\ matchSt.snippet = ExampleSnippetFull)
    => /\ MResult.layer = "full"
       /\ MResult.marks = {2, 3, 4, 5}
       /\ MResult.first = 2

C14_Witness ==
  /\ matchSt.pc = "done"
  /\ matchSt.container = PageContainer(TRUE, ExampleLeaves)
  /\ matchSt.snippet = ExampleSnippetFull
  /\ 1 \notin MResult.marks
  /\ 5 \in MResult.marks

\* C15: for the same five leaves and the garbled snippet, which is not on the
\* page and whose only word longer than 4 characters is "termination", both
\* phrase tiers fail and the token tier marks the leaf "early termination" and
\* no other leaf.
C15_ExampleTokenTier ==
  (/\ matchSt.pc = "done"
   /\ matchSt.container = PageContainer(TRUE, ExampleLeaves)
   /\ matchSt.snippet = ExampleSnippetGarbled)
    => /\ indexOf(join([i \in 1..5 |-> normalize(ExampleLeaves[i])]),
                  normalize(ExampleSnippetGarbled)) = -1
       /\ Len(splitWords(normalize(ExampleSnippetGarbled))) > PartialMinWords
       /\ MResult.layer = "token"
       /\ MResult.marks = {2}
       /\ MResult.first = 2

C15_Witness ==
  /\ matchSt.pc = "done"
  /\ matchSt.container = PageContainer(TRUE, ExampleLeaves)
  /\ matchSt.snippet = ExampleSnippetGarbled
  /\ MResult.layer = "token"
  /\ keyTokens(splitWords(normalize(matchSt.snippet)))
       = << <<"t","e","r","m","i","n","a","t","i","o","n">> >>

\* the leaves that Layer 3 would mark: those whose normalized text contains one
\* of the first five words longer than 4 characters
TokenLeaves(f) ==
  { i \in DOMAIN f.norms :
      \E k \in 1..Min(MaxKeyTokens, Len(f.long)) : includes(f.norms[i], f.long[k]) }

\* C19: the tiers are tried in the order full, partial, token and the first
\* that finds a match alone determines the marked leaves: when the normalized
\* snippet is on the page the result is that of the full tier and every marked
\* leaf overlaps its occurrence; otherwise, when the snippet has more than 5
\* words and its first 15 words are on the page, the result is that of the
\* partial tier and every marked leaf overlaps that occurrence; only when both
\* fail are leaves marked for the tokens they contain.
C19_FirstTierWins ==
  (MDone /\ Len(matchSt.container.spans) > 0)
    => LET f == MFacts
       IN IF f.fullAt # -1
            THEN /\ MResult.layer = "full"
                 /\ MResult.marks
                      \subseteq Overlapping(f, f.fullAt, f.fullAt + Len(f.snip))
          ELSE IF f.partialAt # -1
            THEN /\ MResult.layer = "partial"
                 /\ MResult.marks
                      \subseteq Overlapping(f, f.partialAt,
                                            f.partialAt + Len(f.first15))
          ELSE /\ MResult.layer \in {"token", "nokeytokens"}
               /\ MResult.marks = TokenLeaves(f)

\* the partial tier found the first 15 words and marked their leaves, and a
\* leaf that contains a long word of the snippet, which the token tier would
\* mark, is not marked
C19_Witness ==
  /\ MDone
  /\ MResult.layer = "partial"
  /\ MResult.marks # {}
  /\ TokenLeaves(MFacts) # {}
  /\ TokenLeaves(MFacts) \cap MResult.marks = {}

\* the offset of the leftmost occurrence of needle in hay, or -1
Leftmost(hay, needle) ==
  IF \E i \in 0..Len(hay) : OccursAt(hay, needle, i)
    THEN CHOOSE i \in 0..Len(hay) :
           /\ OccursAt(hay, needle, i)
           /\ \A j \in 0..(i - 1) : ~OccursAt(hay, needle, j)
    ELSE -1

\* C20: when the full or the partial tier finds its search string, the marked
\* leaves are exactly those with leafEnd > matchIndex and leafStart < matchEnd,
\* for matchIndex the leftmost occurrence of the search string in the page's
\* normalized concatenation and matchEnd = matchIndex + its length; the anchor
\* is the first of them, and no leaf is marked for a later occurrence.
C20_PhraseTierMarksOverlap ==
  (MDone /\ MResult.layer \in {"full", "partial"})
    => LET f == MFacts
           search == IF MResult.layer = "full" THEN f.snip ELSE f.first15
           matchIndex == Leftmost(f.page, search)
           matchEnd == matchIndex + Len(search)
           hit == { i \in DOMAIN f.norms :
                      f.end[i] > matchIndex /\ f.start[i] < matchEnd }
       IN /\ matchIndex # -1
          /\ MResult.marks = hit
          /\ MResult.first = FirstOf(hit)

\* a phrase tier marked the leaves of the leftmost occurrence, and the search
\* string occurs again later on the page in a leaf that is not marked
C20_Witness ==
  /\ MDone
  /\ MResult.layer = "full"
  /\ MResult.marks # {}
  /\ LET f == MFacts
     IN \E o \in (f.fullAt + 1)..Len(f.page) :
          /\ OccursAt(f.page, f.snip, o)
          /\ Overlapping(f, o, o + Len(f.snip)) \cap MResult.marks = {}

\* C21: the anchor that a match returns is the marked leaf that comes first in
\* reading order, and there is none exactly when the match marked no leaf; the
\* callback scrolls to the anchor and sets no ring when there is one, and sets
\* the ring on the target page when there is none.
C21_AnchorIsFirstMarked ==
  MDone
    => /\ MResult.first = Null <=> MResult.marks = {}
       /\ MResult.first # Null
            => /\ MResult.first \in MResult.marks
               /\ \A j \in MResult.marks : MResult.first <= j
       /\ \A p \in 1..MaxTargetPage :
            fallbackPage([page |-> p], TRUE, MResult)
              = IF MResult.first = Null THEN p ELSE Null

\* a match marked several leaves, the first of which is not the first leaf of
\* the page
C21_Witness ==
  /\ MDone
  /\ Cardinality(MResult.marks) >= 2
  /\ 1 \notin MResult.marks
  /\ MResult.first \in MResult.marks

\* C22: when the token tier runs, the key tokens are the first (up to) 5 words
\* of the normalized snippet that are longer than 4 characters, in snippet
\* order, and the marked leaves are exactly the leaves whose own normalized
\* text contains one of them, wherever they are on the page.
C22_TokenTierMarks ==
  (MDone /\ MResult.layer = "token")
    => LET f == MFacts
           n == Min(MaxKeyTokens, Len(f.long))
       IN /\ n >= 1
          /\ keyTokens(f.words) = SubSeq(f.long, 1, n)
          /\ MResult.marks
               = { i \in DOMAIN f.norms :
                     \E k \in 1..n :
                       \E o \in 0..Len(f.norms[i]) :
                         OccursAt(f.norms[i], f.long[k], o) }

\* the token tier marked the first and the third leaf of a page and not the
\* second
C22_Witness ==
  /\ MDone
  /\ MResult.layer = "token"
  /\ {1, 3} \subseteq MResult.marks
  /\ 2 \notin MResult.marks

\* C27: a span whose normalized text is empty is never among the marked spans,
\* whichever layer matched: a phrase window cannot reach across the two join
\* spaces around it, and no key token is contained in the empty string.
C27_EmptyLeafNeverMarked ==
  MDone
    => LET f == MFacts
       IN \A i \in DOMAIN f.norms : f.norms[i] = <<>> => i \notin MResult.marks

\* a phrase match over two spans, directly followed by an empty span that
\* stays unmarked
C27_Witness ==
  /\ MDone
  /\ MResult.layer \in {"full", "partial"}
  /\ LET f == MFacts
     IN /\ Len(f.norms) = 3
        /\ f.norms[3] = <<>>
        /\ MResult.marks = {1, 2}

\* C28: Layer 2 is the returning layer only for a snippet of more than 15
\* normalized words.  For a snippet of 6 to 15 words the string Layer 2 looks
\* for is the normalized snippet itself, so when Layer 1 did not find it
\* Layer 2 does not either and the result comes from Layer 3 or is null.
C28_PartialNeedsMoreThan15 ==
  MDone
    => LET f == MFacts
           n == Len(f.words)
       IN /\ MResult.layer = "partial" => n > PartialWords
          /\ (n > PartialMinWords /\ n <= PartialWords)
               => /\ shortSnippetOf(f.words) = f.snip
                  /\ f.fullAt = -1 => MResult.layer \notin {"full", "partial"}

\* a snippet of exactly 15 words that is not on the page although its first
\* 14 words are: the result comes from Layer 3
C28_Witness ==
  /\ MDone
  /\ LET f == MFacts
     IN /\ Len(f.words) = PartialWords
        /\ f.fullAt = -1
        /\ indexOf(f.page, join(SubSeq(f.words, 1, PartialWords - 1))) # -1
        /\ MResult.layer = "token"

\* the words of the page in reading order: the words of each span's normalized
\* text, span after span
RECURSIVE PageWords(_)
PageWords(norms) ==
  IF norms = <<>> THEN <<>>
  ELSE splitWords(Head(norms)) \o PageWords(Tail(norms))

\* ws occurs in big as a run of consecutive elements
IsInfix(ws, big) ==
  \E o \in 0..(Len(big) - Len(ws)) : SubSeq(big, o + 1, o + Len(ws)) = ws

\* C30: on every page, spans with an empty normalized text included, the
\* normalized page string has no two consecutive spaces and neither starts nor
\* ends with a space, and a normalized snippet whose words are consecutive
\* words of the page in reading order is a substring of the page string.
C30_NoDoubleSeparator ==
  MDone
    => LET f == MFacts
       IN /\ \A o \in 1..(Len(f.page) - 1) :
               ~(f.page[o] = " " /\ f.page[o + 1] = " ")
          /\ f.page # <<>> => f.page[1] # " " /\ f.page[Len(f.page)] # " "
          /\ (f.words # <<>> /\ IsInfix(f.words, PageWords(f.norms)))
               => f.fullAt # -1

(***************************************************************************)
(* Properties of the analysis tabs (SpecPoll)                              *)
(***************************************************************************)
\* C26: as long as the last response reports a status that is not terminal
\* (pending or processing) the tab keeps its refetch timer of 3 seconds and
\* shows the loading skeleton; it stops polling and renders the results or the
\* failure message only once the status is complete or failed.
C26_PollsWhileNotTerminal ==
  (pollSt.pc = "run" /\ pollSt.data # "none")
    => /\ pollSt.data \in {"pending", "processing"}
            => pollSt.interval = RefetchMs /\ pollSt.view = "skeleton"
       /\ pollSt.data \in {"complete", "failed"}
            => pollSt.interval = 0
       /\ pollSt.view = "results" => pollSt.data = "complete"
       /\ pollSt.view = "failed" => pollSt.data = "failed"
=============================================================================
